---------------------------- MODULE Spec2Model ----------------------------
(***************************************************************************)
(* Model of main.py of flutter_gsheet_localization_sync: the reconciliation *)
(* between a Google Sheet grid (header + rows) and the per-language ARB     *)
(* files, in its three modes: pull (sync_localizations), init               *)
(* (fill_sheet_from_localizations) and push-new (push_values_to_sheet).     *)
(*                                                                         *)
(* A Python str is a sequence of one-character strings, a list is a        *)
(* sequence, a dict is the sequence of its items in insertion order (the   *)
(* order json.dumps and the row loops iterate in); the inner dict of a     *)
(* table entry, which the code only looks up by key, is a function.        *)
(***************************************************************************)
EXTENDS Naturals, Sequences, FiniteSets, TLC

VARIABLES
    sheet,    \* the remote worksheet: the grid get_all_values() returns
    files,    \* the ARB directory: language code -> file content
    scan,     \* the order in which os.listdir yields the app_<code>.arb files
    pc,       \* position of the run: "idle", "sync" (inside the language loop), "done", "failed"
    run,      \* what the current / last run computed and printed
    sheet0,   \* the sheet when the current run started
    files0,   \* the directory when the current run started
    prev      \* files and printed counts at the end of the preceding run

vars == <<sheet, files, scan, pc, run, sheet0, files0, prev>>

-----------------------------------------------------------------------------
(* Bounds of the model.                                                     *)

\* data rows of an input grid
MaxRows == 3
\* keys of an input ARB file
MaxKeys == 2
\* successive runs of one mode
MaxRuns == 2

-----------------------------------------------------------------------------
(* Python str operations.                                                   *)

NL == "\n"
BS == "\\"

\* the characters str.strip() removes among those the model uses
Whitespace == {" ", NL}

\* code points, for the comparison sorted() makes
Ord(c) ==
    CASE c = NL -> 10 [] c = " " -> 32 [] c = "@" -> 64 [] c = "D" -> 68
      [] c = "H" -> 72 [] c = "I" -> 73 [] c = "W" -> 87 [] c = BS -> 92
      [] c = "a" -> 97 [] c = "b" -> 98 [] c = "d" -> 100 [] c = "e" -> 101
      [] c = "f" -> 102 [] c = "g" -> 103 [] c = "h" -> 104 [] c = "i" -> 105
      [] c = "l" -> 108 [] c = "n" -> 110 [] c = "o" -> 111 [] c = "p" -> 112
      [] c = "w" -> 119 [] c = "x" -> 120 [] c = "z" -> 122 [] c = "{" -> 123
      [] c = "}" -> 125
      [] OTHER -> 127

RECURSIVE LStrip(_)
LStrip(s) ==
    IF s # <<>> /\ Head(s) \in Whitespace THEN LStrip(Tail(s)) ELSE s

RECURSIVE RStrip(_)
RStrip(s) ==
    IF s # <<>> /\ s[Len(s)] \in Whitespace
    THEN RStrip(SubSeq(s, 1, Len(s) - 1))
    ELSE s

\* str.strip()
Strip(s) == RStrip(LStrip(s))

LowerChar(c) == CASE c = "I" -> "i" [] c = "D" -> "d" [] c = "H" -> "h"
                  [] c = "W" -> "w" [] OTHER -> c

\* str.lower()
Lower(s) == [i \in 1..Len(s) |-> LowerChar(s[i])]

\* a mutant of Unescape: the cell text is taken as it is
UnescapeNothing(s) == s

\* value.replace("\\n", "\n"): backslash + n becomes a newline, left to right
RECURSIVE Unescape(_)
Unescape(s) ==
    IF s = <<>> THEN <<>>
    ELSE IF Len(s) >= 2 /\ s[1] = BS /\ s[2] = "n"
         THEN <<NL>> \o Unescape(SubSeq(s, 3, Len(s)))
         ELSE <<s[1]>> \o Unescape(Tail(s))

\* value.replace("\n", "\\n"): a newline becomes backslash + n
RECURSIVE Escape(_)
Escape(s) ==
    IF s = <<>> THEN <<>>
    ELSE (IF s[1] = NL THEN <<BS, "n">> ELSE <<s[1]>>) \o Escape(Tail(s))

\* a < b for two str
RECURSIVE StrLess(_, _)
StrLess(a, b) ==
    IF b = <<>> THEN FALSE
    ELSE IF a = <<>> THEN TRUE
    ELSE IF Ord(a[1]) # Ord(b[1]) THEN Ord(a[1]) < Ord(b[1])
    ELSE StrLess(Tail(a), Tail(b))

\* sorted(S) of a set of str
RECURSIVE Sorted(_)
Sorted(S) ==
    IF S = {} THEN <<>>
    ELSE LET m == CHOOSE a \in S : \A b \in S \ {a} : StrLess(a, b)
         IN  <<m>> \o Sorted(S \ {m})

-----------------------------------------------------------------------------
(* Python dict operations on a sequence of items [k, v].                    *)

Keys(d) == {d[i].k : i \in 1..Len(d)}

Has(d, key) == \E i \in 1..Len(d) : d[i].k = key

Get(d, key) == d[CHOOSE i \in 1..Len(d) : d[i].k = key].v

\* d[key] = val: an existing key keeps its place, a new one goes last
Put(d, key, val) ==
    IF Has(d, key)
    THEN [i \in 1..Len(d) |-> IF d[i].k = key THEN [k |-> key, v |-> val] ELSE d[i]]
    ELSE Append(d, [k |-> key, v |-> val])

SeqsUpTo(S, n) == UNION {[1..m -> S] : m \in 0..n}

-----------------------------------------------------------------------------
(* parse_sheet_to_dict                                                      *)

\* the loop over range(1, len(header)) for one row: a later column with the
\* same stripped code overwrites an earlier one
RECURSIVE RowTranslations(_, _, _, _)
RowTranslations(header, row, i, acc) ==
    IF i > Len(header) THEN acc
    ELSE LET lang_code == Strip(header[i])
             value     == IF i <= Len(row) THEN row[i] ELSE <<>>
         IN  RowTranslations(header, row, i + 1,
                 [c \in DOMAIN acc \cup {lang_code} |->
                     IF c = lang_code THEN Unescape(value) ELSE acc[c]])

\* a mutant of ParseRow: the first row of an id wins
ParseRowFirstWins(header, row, dict) ==
    IF row = <<>> \/ Strip(row[1]) = <<>> \/ Has(dict, Strip(row[1]))
    THEN dict
    ELSE Put(dict, Strip(row[1]), RowTranslations(header, row, 2, <<>>))

\* the body of the loop over sheet_values[1:]: a blank row is skipped, a row
\* with a known id overwrites the entry
ParseRow(header, row, dict) ==
    IF row = <<>> \/ Strip(row[1]) = <<>>
    THEN dict
    ELSE Put(dict, Strip(row[1]), RowTranslations(header, row, 2, <<>>))

\* the loop over sheet_values[1:]
RECURSIVE ParseRows(_, _, _, _)
ParseRows(header, rows, i, dict) ==
    IF i > Len(rows) THEN dict
    ELSE ParseRows(header, rows, i + 1, ParseRow(header, rows[i], dict))

Ok(table) == [kind |-> "ok", table |-> table]
Raised(exc) == [kind |-> exc, table |-> <<>>]

\* a mutant of parse_sheet_to_dict: the row count is checked against 1
ParseAcceptsHeaderOnly(sheet_values) ==
    IF Len(sheet_values) < 1 THEN Raised("ValueError")
    ELSE LET header == sheet_values[1] IN
         IF header = <<>> THEN Raised("IndexError")
         ELSE IF Lower(Strip(header[1])) # <<"i", "d">> THEN Raised("ValueError")
         ELSE Ok(ParseRows(header, sheet_values, 2, <<>>))

parse_sheet_to_dict(sheet_values) ==
    IF Len(sheet_values) < 2 THEN Raised("ValueError")
    ELSE LET header == sheet_values[1] IN
         IF header = <<>> THEN Raised("IndexError")
         ELSE IF Lower(Strip(header[1])) # <<"i", "d">> THEN Raised("ValueError")
         ELSE Ok(ParseRows(header, sheet_values, 2, <<>>))

-----------------------------------------------------------------------------
(* The worksheet: clear() and update(rows) at A1.                           *)

\* sheet.clear()
Clear(grid) == <<>>

Max(a, b) == IF a >= b THEN a ELSE b

\* sheet.update(rows) at A1: the cells of rows overwrite the grid's, the
\* cells outside the written range stay
Update(grid, rows) ==
    [r \in 1..Max(Len(grid), Len(rows)) |->
        IF r > Len(rows) THEN grid[r]
        ELSE IF r > Len(grid) THEN rows[r]
        ELSE rows[r] \o SubSeq(grid[r], Len(rows[r]) + 1, Len(grid[r]))]

-----------------------------------------------------------------------------
(* The ARB directory. A file is absent, unreadable as JSON, or a dict.      *)

Absent == [st |-> "absent", data |-> <<>>]
Corrupt == [st |-> "corrupt", data |-> <<>>]
Arb(data) == [st |-> "ok", data |-> data]

\* key.startswith("@")
IsMetadata(key) == key # <<>> /\ key[1] = "@"

\* the loop over arb_data.items() of one file
RECURSIVE GatherFile(_, _, _, _)
GatherFile(language_code, data, i, acc) ==
    IF i > Len(data) THEN acc
    ELSE LET key == data[i].k
             old == IF Has(acc.table, key) THEN Get(acc.table, key) ELSE <<>>
         IN  GatherFile(language_code, data, i + 1,
               IF IsMetadata(key)
               THEN [acc EXCEPT !.metadata = @ \cup {key}]
               ELSE [acc EXCEPT !.table =
                        Put(@, key,
                            [c \in DOMAIN old \cup {language_code} |->
                                IF c = language_code THEN data[i].v ELSE old[c]])])

\* the loop over os.listdir(arbs_dir); json.load raises on a corrupt file
RECURSIVE GatherFiles(_, _, _, _)
GatherFiles(dir, order, i, acc) ==
    IF i > Len(order) THEN acc
    ELSE IF dir[order[i]].st = "corrupt"
         THEN [acc EXCEPT !.kind = "JSONDecodeError"]
         ELSE GatherFiles(dir, order, i + 1,
                  GatherFile(order[i], dir[order[i]].data, 1, acc))

gather_localizations_from_arbs(dir, order) ==
    GatherFiles(dir, order, 1, [kind |-> "ok", table |-> <<>>, metadata |-> {}])

-----------------------------------------------------------------------------
(* fill_sheet_from_localizations                                            *)

\* the set lang_codes collects over localizations.values()
LangCodesOf(localizations) ==
    UNION {DOMAIN localizations[i].v : i \in 1..Len(localizations)}

\* translations.get(lang, "")
GetOrEmpty(translations, lang) ==
    IF lang \in DOMAIN translations THEN translations[lang] ELSE <<>>

\* one row: the id, then the escaped value of every language column
RowOf(str_id, translations, lang_codes) ==
    <<str_id>> \o [j \in 1..Len(lang_codes) |->
                      Escape(GetOrEmpty(translations, lang_codes[j]))]

IdHeader == <<"i", "d">>

FillRows(localizations) ==
    LET lang_codes == Sorted(LangCodesOf(localizations))
    IN  <<(<<IdHeader>> \o lang_codes)>> \o
        [i \in 1..Len(localizations) |->
            RowOf(localizations[i].k, localizations[i].v, lang_codes)]

\* a mutant of fill_sheet_from_localizations: the sheet is not cleared
FillWithoutClear(grid, localizations) ==
    Update(grid, FillRows(localizations))

\* the sheet after fill_sheet_from_localizations
fill_sheet_from_localizations(grid, localizations) ==
    Update(Clear(grid), FillRows(localizations))

-----------------------------------------------------------------------------
(* push_values_to_sheet                                                     *)

\* a mutant of MergeNew: every id of the resources is counted as new
RECURSIVE MergeNewCountsAll(_, _, _, _)
MergeNewCountsAll(localizations, i, merged, new_count) ==
    IF i > Len(localizations) THEN [merged |-> merged, new_count |-> new_count]
    ELSE IF Has(merged, localizations[i].k)
         THEN MergeNewCountsAll(localizations, i + 1, merged, new_count + 1)
         ELSE MergeNewCountsAll(localizations, i + 1,
                                Append(merged, localizations[i]), new_count + 1)

\* the loop over localizations.items(): an id the sheet lacks is added
RECURSIVE MergeNew(_, _, _, _)
MergeNew(localizations, i, merged, new_count) ==
    IF i > Len(localizations) THEN [merged |-> merged, new_count |-> new_count]
    ELSE IF Has(merged, localizations[i].k)
         THEN MergeNew(localizations, i + 1, merged, new_count)
         ELSE MergeNew(localizations, i + 1,
                       Append(merged, localizations[i]), new_count + 1)

\* rows = [header] + one row per merged entry, in the header's columns
PushRows(header, merged) ==
    LET lang_codes == Tail(header)
    IN  <<header>> \o
        [i \in 1..Len(merged) |-> RowOf(merged[i].k, merged[i].v, lang_codes)]

\* the outcome of push_values_to_sheet: the exception raised if any, the
\* sheet it leaves, and the count and ids it prints
push_values_to_sheet(grid, localizations) ==
    LET existing_data == grid
        empty   == existing_data = <<>>
        parsed  == IF empty THEN Ok(<<>>) ELSE parse_sheet_to_dict(existing_data)
        header  == IF empty
                   THEN <<IdHeader>> \o Sorted(LangCodesOf(localizations))
                   ELSE existing_data[1]
    IN  IF parsed.kind # "ok"
        THEN [kind |-> parsed.kind, sheet |-> grid, new_count |-> 0, new_ids |-> <<>>]
        ELSE LET afterHeader == IF empty THEN Update(grid, <<header>>) ELSE grid
                 m    == MergeNew(localizations, 1, parsed.table, 0)
                 rows == PushRows(header, m.merged)
             IN  [kind      |-> "ok",
                  sheet     |-> Update(Clear(afterHeader), rows),
                  new_count |-> m.new_count,
                  new_ids   |-> IF m.new_count > 0
                                THEN Sorted(Keys(m.merged) \ Keys(parsed.table))
                                ELSE <<>>]

-----------------------------------------------------------------------------
(* sync_localizations: the merge of the table into one language's file      *)

\* a mutant of MergeInto: a key is counted only when its value changes
RECURSIVE MergeCountsChanges(_, _, _, _, _)
MergeCountsChanges(table, lang, i, arb_data, updated_keys) ==
    IF i > Len(table) THEN [data |-> arb_data, updated_keys |-> updated_keys]
    ELSE IF lang \in DOMAIN table[i].v
         THEN MergeCountsChanges(table, lang, i + 1,
                  Put(arb_data, table[i].k, table[i].v[lang]),
                  IF Has(arb_data, table[i].k)
                     /\ Get(arb_data, table[i].k) = table[i].v[lang]
                  THEN updated_keys ELSE updated_keys + 1)
         ELSE MergeCountsChanges(table, lang, i + 1, arb_data, updated_keys)

\* the loop over sheet_dict.items() for one language
RECURSIVE MergeLoop(_, _, _, _, _)
MergeLoop(table, lang, i, arb_data, updated_keys) ==
    IF i > Len(table) THEN [data |-> arb_data, updated_keys |-> updated_keys]
    ELSE IF lang \in DOMAIN table[i].v
         THEN MergeLoop(table, lang, i + 1,
                  Put(arb_data, table[i].k, table[i].v[lang]), updated_keys + 1)
         ELSE MergeLoop(table, lang, i + 1, arb_data, updated_keys)

\* the header's language codes, stripped, in column order
LanguageCodes(header) == [j \in 1..(Len(header) - 1) |-> Strip(header[j + 1])]

-----------------------------------------------------------------------------
(* The parser on its own: SpecParse draws a grid and parses it.             *)

NoFiles == <<>>
NoRun == [op |-> "none", n |-> 0, kind |-> "none"]

\* rows of the grids the parser is tried on: headers and data rows alike
ParseRowSamples ==
    { <<<<"i", "d">>, <<"e", "n">>, <<"p", "l">>>>,
      <<<<" ", "I", "d", NL>>, <<" ", "e", "n">>, <<"e", "n">>>>,
      <<<<"x">>, <<"e", "n">>>>,
      <<>>,
      <<<<"a">>, <<"H">>, <<"W">>>>,
      <<<<" ", "a", " ">>, <<"a", BS, "n">>, <<NL>>>>,
      <<<<" ", NL>>, <<"x">>, <<"x">>>>,
      <<<<"b">>>> }

InitParse ==
    /\ sheet \in SeqsUpTo(ParseRowSamples, MaxRows + 1)
    /\ files = NoFiles /\ scan = <<>>
    /\ pc = "idle" /\ run = NoRun
    /\ sheet0 = <<>> /\ files0 = NoFiles /\ prev = NoRun

Parse ==
    /\ pc = "idle"
    /\ run' = [op |-> "parse", res |-> parse_sheet_to_dict(sheet)]
    /\ pc' = "done"
    /\ UNCHANGED <<sheet, files, scan, sheet0, files0, prev>>

NextParse == Parse

SpecParse == InitParse /\ [][NextParse]_vars

\* the header's first cell is "id" in any case, with whitespace around it only
IsIdCell(cell) ==
    \E i \in 1..Len(cell) :
        /\ i < Len(cell)
        /\ cell[i] \in {"i", "I"} /\ cell[i + 1] \in {"d", "D"}
        /\ \A j \in 1..Len(cell) : j \notin {i, i + 1} => cell[j] \in Whitespace

Parsed == pc = "done" /\ run.op = "parse"

\* C5: a grid of fewer than 2 rows, and a grid whose header's first cell is
\* not "id" once trimmed and lower-cased, make the parser raise ValueError;
\* no table is returned.
C5_MalformedSheetRaises ==
    Parsed =>
        /\ Len(sheet) < 2 => run.res.kind = "ValueError"
        /\ (Len(sheet) >= 2 /\ sheet[1] # <<>> /\ ~IsIdCell(sheet[1][1]))
              => run.res.kind = "ValueError"

C5_Witness ==
    /\ Parsed
    /\ Len(sheet) = 3 /\ sheet[1] # <<>> /\ ~IsIdCell(sheet[1][1])
    /\ Len(sheet[2]) # Len(sheet[3])
    /\ run.res.kind = "ValueError"

\* the data rows (indices into the grid) that carry an id
IdRows(grid) ==
    {r \in 2..Len(grid) : grid[r] # <<>> /\ Strip(grid[r][1]) # <<>>}

LastRowOf(grid, id) ==
    CHOOSE r \in IdRows(grid) :
        /\ Strip(grid[r][1]) = id
        /\ \A q \in IdRows(grid) : Strip(grid[q][1]) = id => q <= r

CellOrEmpty(row, i) == IF i <= Len(row) THEN row[i] ELSE <<>>

\* C8: the parsed table's keys are the trimmed non-blank first cells of the
\* data rows; the entry of an id holds, for every header column, the cell of
\* the LAST row carrying that id, a missing cell read as "".
C8_KeysAndLastRowWins ==
    (Parsed /\ run.res.kind = "ok") =>
        LET header == sheet[1]
            table  == run.res.table
        IN  /\ Keys(table) = {Strip(sheet[r][1]) : r \in IdRows(sheet)}
            /\ Len(table) = Cardinality(Keys(table))
            /\ \A id \in Keys(table) :
                 LET row == sheet[LastRowOf(sheet, id)]
                     tr  == Get(table, id)
                 IN  /\ DOMAIN tr = {Strip(header[i]) : i \in 2..Len(header)}
                     /\ \A i \in 2..Len(header) :
                          (\A j \in (i + 1)..Len(header) :
                               Strip(header[j]) # Strip(header[i]))
                          => tr[Strip(header[i])] = Unescape(CellOrEmpty(row, i))

\* two rows with the same trimmed id and different cells, after a blank-id row
C8_Witness ==
    /\ Parsed /\ run.res.kind = "ok"
    /\ Len(sheet) = 4
    /\ sheet[2] # <<>> /\ Strip(sheet[2][1]) = <<>>
    /\ sheet[3] # <<>> /\ sheet[4] # <<>>
    /\ Strip(sheet[3][1]) = Strip(sheet[4][1])
    /\ sheet[3] # sheet[4]
    /\ Len(run.res.table) = 1

-----------------------------------------------------------------------------
(* Init mode (main with --init), followed by a parse of the sheet it wrote. *)

EN == <<"e", "n">>
PL == <<"p", "l">>

Perms(S) ==
    {o \in [1..Cardinality(S) -> S] : \A i, j \in 1..Cardinality(S) : o[i] = o[j] => i = j}

Items(K, V) == [k : K, v : V]

\* the dicts of at most n items over keys K and values V
DictsUpTo(K, V, n) ==
    {d \in SeqsUpTo(Items(K, V), n) :
        \A i, j \in 1..Len(d) : d[i].k = d[j].k => i = j}

InitKeys == {<<"g">>, <<"f">>, <<"@", "g">>, <<" ", "g">>}
InitValues == {<<"H">>, <<"a", NL>>, <<BS, "n">>}

EnSamples == {Absent} \cup {Arb(d) : d \in DictsUpTo(InitKeys, InitValues, MaxKeys)}

PlSamples ==
    { Absent,
      Arb(<<>>),
      Arb(<<[k |-> <<"@", "g">>, v |-> <<"W">>]>>),
      Arb(<<[k |-> <<"f">>, v |-> <<"W">>]>>),
      Arb(<<[k |-> <<"f">>, v |-> <<NL, "W">>], [k |-> <<"g">>, v |-> <<>>]>>) }

OldCell == <<"o", "l", "d">>
OldRow == <<OldCell, OldCell, OldCell, OldCell>>
OldSheets == {<<>>, <<OldRow, OldRow, OldRow, OldRow, OldRow, OldRow>>}

Present(dir) == {c \in DOMAIN dir : dir[c].st # "absent"}

InitInit ==
    /\ sheet \in OldSheets
    /\ \E en \in EnSamples, pl \in PlSamples :
          files = [c \in {EN, PL} |-> IF c = EN THEN en ELSE pl]
    /\ scan \in Perms(Present(files))
    /\ pc = "idle" /\ run = NoRun
    /\ sheet0 = <<>> /\ files0 = NoFiles /\ prev = NoRun

\* main, args.init
InitMode ==
    /\ pc = "idle"
    /\ LET g == gather_localizations_from_arbs(files, scan) IN
         /\ run' = [op |-> "init", kind |-> g.kind, table |-> g.table,
                    metadata |-> g.metadata, count |-> Len(g.table)]
         /\ IF g.kind = "ok"
            THEN /\ sheet' = fill_sheet_from_localizations(sheet, g.table)
                 /\ pc' = "done"
            ELSE /\ sheet' = sheet
                 /\ pc' = "failed"
    /\ sheet0' = sheet /\ files0' = files
    /\ UNCHANGED <<files, scan, prev>>

\* parse_sheet_to_dict on the grid init mode wrote
ParseBack ==
    /\ pc = "done" /\ run.op = "init"
    /\ run' = [op |-> "roundtrip", table |-> run.table,
               res |-> parse_sheet_to_dict(sheet)]
    /\ pc' = "parsed"
    /\ UNCHANGED <<sheet, files, scan, sheet0, files0, prev>>

NextInit == InitMode \/ ParseBack

SpecInit == InitInit /\ [][NextInit]_vars

InitDone == pc = "done" /\ run.op = "init"

\* the translation ids of the directory, and where the scan first meets one
IdsOfFile(f) == {f.data[i].k : i \in 1..Len(f.data)} \ {key \in Keys(f.data) : IsMetadata(key)}
IdsOf(dir) == UNION {IdsOfFile(dir[c]) : c \in DOMAIN dir}
FirstFile(dir, order, id) ==
    CHOOSE p \in 1..Len(order) :
        /\ id \in IdsOfFile(dir[order[p]])
        /\ \A q \in 1..(p - 1) : id \notin IdsOfFile(dir[order[q]])
KeyIndex(f, key) == CHOOSE i \in 1..Len(f.data) : f.data[i].k = key
SeenBefore(dir, order, a, b) ==
    LET pa == FirstFile(dir, order, a)
        pb == FirstFile(dir, order, b)
    IN  \/ pa < pb
        \/ pa = pb /\ KeyIndex(dir[order[pa]], a) < KeyIndex(dir[order[pa]], b)

\* the sheet is exactly: header "id" + the codes of L in sorted order, then
\* one row per translation id of the directory in first-seen order, holding
\* the escaped value of each header language or "" where the file lacks the id
InitGridIs(L) ==
    LET header == sheet[1]
        ids    == IdsOf(files0)
    IN  /\ Len(sheet) = 1 + Cardinality(ids)
        /\ Len(header) = 1 + Cardinality(L)
        /\ header[1] = IdHeader
        /\ {header[j] : j \in 2..Len(header)} = L
        /\ \A j \in 2..(Len(header) - 1) : StrLess(header[j], header[j + 1])
        /\ {sheet[r][1] : r \in 2..Len(sheet)} = ids
        /\ \A r, q \in 2..Len(sheet) :
              r < q => SeenBefore(files0, scan, sheet[r][1], sheet[q][1])
        /\ \A r \in 2..Len(sheet) :
              /\ Len(sheet[r]) = Len(header)
              /\ \A j \in 2..Len(header) :
                    LET f == files0[header[j]] IN
                    sheet[r][j] = IF sheet[r][1] \in IdsOfFile(f)
                                  THEN Escape(Get(f.data, sheet[r][1]))
                                  ELSE <<>>

\* C7 as stated: the header lists the language code of every resource file.
C7_HeaderOfAllFiles ==
    InitDone => InitGridIs(Present(files0))

\* C7, amended: after init the sheet is exactly the header "id" + the sorted
\* codes of the files that hold at least one translation id, then one row per
\* id in first-seen order with escaped values and "" for a missing language;
\* nothing of the previous sheet remains.
C7_InitOverwritesSheet ==
    InitDone => InitGridIs({c \in Present(files0) : IdsOfFile(files0[c]) # {}})

C7_Witness ==
    /\ InitDone
    /\ sheet0 # <<>>
    /\ Len(sheet) = 3 /\ Len(sheet[1]) = 3
    /\ scan = <<PL, EN>>
    /\ \E r \in 2..3 : sheet[r][2] = <<>>
    /\ \E r \in 2..3 : sheet[r][3] = <<BS, "n", "W">>

RoundTripped == pc = "parsed" /\ run.op = "roundtrip"

\* two values are equal modulo newline escaping
SameModuloEscaping(a, b) == Escape(a) = Escape(b)

HasEscapeSequence(v) == \E i \in 1..(Len(v) - 1) : v[i] = BS /\ v[i + 1] = "n"

\* C4 as stated: parsing the init-mode grid gives back the same ids, the same
\* language keys per id and the same values modulo newline escaping.
C4_RoundTripSameTable ==
    RoundTripped =>
        /\ run.res.kind = "ok"
        /\ Keys(run.res.table) = Keys(run.table)
        /\ \A id \in Keys(run.table) :
              LET tr   == Get(run.table, id)
                  back == Get(run.res.table, id)
              IN  /\ DOMAIN back = DOMAIN tr
                  /\ \A c \in DOMAIN tr : SameModuloEscaping(back[c], tr[c])

Trimmed(s) == s # <<>> /\ s[1] \notin Whitespace /\ s[Len(s)] \notin Whitespace

\* C4, amended: for a non-empty table whose ids and language codes have no
\* surrounding whitespace, parsing the init-mode grid gives the same ids in
\* the same order, every id carrying EVERY language code of the table: the
\* value it had modulo newline escaping (the very value when it holds no
\* backslash-n), and "" for a language the id did not have.
C4_RoundTripFilledTable ==
    (/\ RoundTripped
     /\ run.table # <<>>
     /\ \A id \in Keys(run.table) : Trimmed(id)
     /\ \A c \in LangCodesOf(run.table) : Trimmed(c))
    =>
        /\ run.res.kind = "ok"
        /\ Len(run.res.table) = Len(run.table)
        /\ \A i \in 1..Len(run.table) :
              LET tr   == run.table[i].v
                  back == run.res.table[i].v
              IN  /\ run.res.table[i].k = run.table[i].k
                  /\ DOMAIN back = LangCodesOf(run.table)
                  /\ \A c \in LangCodesOf(run.table) :
                        IF c \in DOMAIN tr
                        THEN /\ SameModuloEscaping(back[c], tr[c])
                             /\ ~HasEscapeSequence(tr[c]) => back[c] = tr[c]
                        ELSE back[c] = <<>>

C4_Witness ==
    /\ RoundTripped /\ run.res.kind = "ok"
    /\ Len(run.table) = 2
    /\ \A id \in Keys(run.table) : Trimmed(id)
    /\ \E i \in 1..2 : DOMAIN run.table[i].v = {PL}
    /\ \E i \in 1..2 : EN \in DOMAIN run.table[i].v /\ run.table[i].v[EN] = <<"a", NL>>
    /\ \E i \in 1..2 : EN \in DOMAIN run.res.table[i].v /\ run.res.table[i].v[EN] = <<>>

-----------------------------------------------------------------------------
(* Push-new mode (main with --push), run up to MaxRuns times in succession. *)

PushHeaders ==
    { <<IdHeader, EN, PL>>,
      <<IdHeader, EN>>,
      <<<<"I", "d">>, <<" ", "e", "n">>>>,
      <<<<"x">>, EN>> }

PushRowSamples ==
    { <<<<"g">>, <<"H">>, <<"W">>>>,
      <<<<" ", "g", " ">>, <<BS, "n">>, <<>>>>,
      <<<<" ", " ">>, <<"x">>, <<"x">>>>,
      <<<<"f">>, <<"a", NL>>, <<"W">>>> }

\* rectangular grids: every data row has the header's width
PushSheets ==
    {<<>>} \cup
    { <<h>> \o [i \in 1..Len(rows) |-> SubSeq(rows[i], 1, Len(h))] :
        h \in PushHeaders, rows \in SeqsUpTo(PushRowSamples, MaxRows) }

PushEnSamples ==
    { Absent,
      Arb(<<[k |-> <<"g">>, v |-> <<"x">>], [k |-> <<"f">>, v |-> <<"a", NL>>]>>),
      Arb(<<[k |-> <<" ", "g">>, v |-> <<"H">>], [k |-> <<"@", "g">>, v |-> <<"W">>]>>) }

PushPlSamples ==
    { Absent,
      Arb(<<>>),
      Arb(<<[k |-> <<"f">>, v |-> <<"W">>], [k |-> <<"b">>, v |-> <<>>]>>) }

InitPush ==
    /\ sheet \in PushSheets
    /\ \E en \in PushEnSamples, pl \in PushPlSamples :
          files = [c \in {EN, PL} |-> IF c = EN THEN en ELSE pl]
    /\ scan \in Perms(Present(files))
    /\ pc = "idle" /\ run = NoRun
    /\ sheet0 = <<>> /\ files0 = NoFiles /\ prev = NoRun

\* main, args.push
PushMode ==
    /\ run.n < MaxRuns
    /\ LET g == gather_localizations_from_arbs(files, scan)
           r == push_values_to_sheet(sheet, g.table)
       IN  IF g.kind # "ok"
           THEN /\ run' = [op |-> "push", n |-> run.n + 1, kind |-> g.kind,
                           table |-> g.table, new_count |-> 0, new_ids |-> <<>>]
                /\ sheet' = sheet
                /\ pc' = "failed"
           ELSE /\ run' = [op |-> "push", n |-> run.n + 1, kind |-> r.kind,
                           table |-> g.table, new_count |-> r.new_count,
                           new_ids |-> r.new_ids]
                /\ sheet' = r.sheet
                /\ pc' = IF r.kind = "ok" THEN "done" ELSE "failed"
    /\ prev' = run /\ sheet0' = sheet /\ files0' = files
    /\ UNCHANGED <<files, scan>>

NextPush == PushMode

SpecPush == InitPush /\ [][NextPush]_vars

Pushed == run.op = "push" /\ pc = "done"

\* the ids the sheet held before the run, and those only the resources hold
ExistingIds == IF sheet0 = <<>> THEN {} ELSE {Strip(sheet0[r][1]) : r \in IdRows(sheet0)}
NewIds == Keys(run.table) \ ExistingIds

\* C1 as stated: every id the sheet held before the push is in the sheet
\* after it, with the cells (compared modulo newline escaping) of its row
\* unchanged in every language column.
C1_PushKeepsExistingRows ==
    (Pushed /\ sheet0 # <<>>) =>
        \A id \in ExistingIds :
            LET old == sheet0[LastRowOf(sheet0, id)] IN
            \E q \in 2..Len(sheet) :
                /\ sheet[q][1] = id
                /\ \A j \in 2..Len(sheet0[1]) :
                      SameModuloEscaping(sheet[q][j], CellOrEmpty(old, j))

\* the rows after the existing ids are the new ids, once each; the count and
\* the sorted list printed are theirs
PushAddsNewIds ==
    LET firstNew == 2 + Cardinality(ExistingIds) IN
    /\ run.new_count = Cardinality(NewIds)
    /\ run.new_ids = Sorted(NewIds)
    /\ Len(sheet) = 1 + Cardinality(ExistingIds) + Cardinality(NewIds)
    /\ {sheet[r][1] : r \in 2..(firstNew - 1)} = ExistingIds
    /\ {sheet[r][1] : r \in firstNew..Len(sheet)} = NewIds

NewRows == (2 + Cardinality(ExistingIds))..Len(sheet)

C10_SecondPushChangesNothing ==
    (run.op = "push" /\ run.n = 2 /\ prev.kind = "ok") =>
        /\ run.kind = "ok"
        /\ run.new_count = 0
        /\ sheet = sheet0

-----------------------------------------------------------------------------
(* Pull mode (main's default), run up to MaxRuns times in succession; the   *)
(* loop over the languages is one step per language.                        *)

PullHeaders ==
    { <<IdHeader, EN, PL>>,
      <<<<" ", "I", "D">>, <<" ", "e", "n">>, EN>> }

PullRowSamples ==
    { <<<<"g">>, <<"H">>, <<"W">>>>,
      <<<<"@", "g">>, <<"x">>, <<"x">>>>,
      <<<<"f">>, <<BS, "n">>, <<>>>>,
      <<<<" ", "g", " ">>, <<"W">>, <<"H">>>> }

PullSheets ==
    { <<h>> \o rows : h \in PullHeaders, rows \in SeqsUpTo(PullRowSamples, MaxRows) }

\* the value of a metadata key is a JSON object, kept as it is
MetaObject == <<"{", "}">>

PullFileSamples ==
    { Absent,
      Corrupt,
      Arb(<<[k |-> <<"@", "g">>, v |-> MetaObject], [k |-> <<"g">>, v |-> <<"o">>]>>),
      Arb(<<[k |-> <<"f">>, v |-> <<"o">>], [k |-> <<"z">>, v |-> <<"o">>]>>) }

InitPull ==
    /\ sheet \in PullSheets
    /\ files \in [{EN, PL} -> PullFileSamples]
    /\ scan = <<>>
    /\ pc = "idle" /\ run = NoRun
    /\ sheet0 = <<>> /\ files0 = NoFiles /\ prev = NoRun

\* sync_localizations up to the loop: the sheet is read and parsed
SyncStart ==
    /\ pc \in {"idle", "done", "failed"}
    /\ run.n < MaxRuns
    /\ LET all_values == sheet
           res == parse_sheet_to_dict(all_values)
           language_codes == IF res.kind = "ok" THEN LanguageCodes(all_values[1]) ELSE <<>>
       IN  /\ run' = [op |-> "sync", n |-> run.n + 1, kind |-> res.kind,
                      table |-> res.table, langs |-> language_codes,
                      k |-> 1, counts |-> <<>>]
           /\ pc' = IF res.kind # "ok" THEN "failed"
                    ELSE IF language_codes = <<>> THEN "done" ELSE "sync"
    /\ prev' = run /\ sheet0' = sheet /\ files0' = files
    /\ UNCHANGED <<sheet, files, scan>>

\* one iteration of the loop: app_<lang>.arb is read (or taken as {} when it
\* does not exist), merged, written, and its count printed
SyncLang ==
    /\ pc = "sync"
    /\ LET lang == run.langs[run.k]
           arb_data == IF files[lang].st = "ok" THEN files[lang].data ELSE <<>>
           m == MergeLoop(run.table, lang, 1, arb_data, 0)
       IN  /\ files[lang].st # "corrupt"
           /\ files' = [files EXCEPT ![lang] = Arb(m.data)]
           /\ run' = [run EXCEPT !.k = @ + 1, !.counts = Append(@, m.updated_keys)]
           /\ pc' = IF run.k = Len(run.langs) THEN "done" ELSE "sync"
    /\ UNCHANGED <<sheet, scan, sheet0, files0, prev>>

\* a mutant of SyncReadFails: the file is opened for writing before it is read
SyncReadFailsAfterTruncate ==
    /\ pc = "sync"
    /\ files[run.langs[run.k]].st = "corrupt"
    /\ files' = [files EXCEPT ![run.langs[run.k]] = Arb(<<>>)]
    /\ run' = [run EXCEPT !.kind = "JSONDecodeError"]
    /\ pc' = "failed"
    /\ UNCHANGED <<sheet, scan, sheet0, files0, prev>>

\* json.load raises on the file of the current language: the run ends there
SyncReadFails ==
    /\ pc = "sync"
    /\ files[run.langs[run.k]].st = "corrupt"
    /\ run' = [run EXCEPT !.kind = "JSONDecodeError"]
    /\ pc' = "failed"
    /\ UNCHANGED <<sheet, files, scan, sheet0, files0, prev>>

NextPull == SyncStart \/ SyncLang \/ SyncReadFails

SpecPull == InitPull /\ [][NextPull]_vars

InSync == run.op = "sync"

\* C2 as stated: every "@" key a resource file held before the run is in the
\* file, with the same value, at every point of the run.
C2_MetadataKept ==
    InSync =>
        \A c \in DOMAIN files0 :
            \A key \in Keys(files0[c].data) :
                IsMetadata(key) =>
                    /\ Has(files[c].data, key)
                    /\ Get(files[c].data, key) = Get(files0[c].data, key)

\* C3: a pull run that follows a completed pull run of the same sheet leaves
\* every resource file as the first run left it and prints the same count
\* for every language.
C3_MergeIdempotent ==
    (InSync /\ pc = "done" /\ run.n >= 2 /\ prev.kind = "ok") =>
        /\ files = files0
        /\ run.counts = prev.counts

\* a second run over a file the first run extended with an id of the sheet
C3_Witness ==
    /\ InSync /\ pc = "done" /\ run.n = 2 /\ prev.kind = "ok"
    /\ Len(run.counts) = 2 /\ run.counts[1] = 2
    /\ Keys(files[EN].data) = {<<"@", "g">>, <<"g">>, <<"f">>}
    /\ Keys(files[PL].data) = {<<"g">>, <<"f">>}

\* new is old with the table's value for lang set on every id of the table:
\* the keys old held keep their place, the others follow
IsMergeOf(new, old, table, lang) ==
    LET base == IF old.st = "ok" THEN old.data ELSE <<>> IN
    /\ new.st = "ok"
    /\ Keys(new.data) = Keys(base) \cup Keys(table)
    /\ Len(new.data) = Cardinality(Keys(new.data))
    /\ \A i \in 1..Len(base) : new.data[i].k = base[i].k
    /\ \A key \in Keys(new.data) :
          Get(new.data, key) = IF key \in Keys(table)
                               THEN Get(table, key)[lang]
                               ELSE Get(base, key)

\* C9: when the read of the k-th language's file fails, the files of the
\* languages before it hold their merged content, every other file is what
\* it was before the run, and the run has ended in an error with the counts
\* of the first k-1 languages only.
C9_PartialFailure ==
    (InSync /\ pc = "failed" /\ run.kind = "JSONDecodeError") =>
        LET before == {run.langs[i] : i \in 1..(run.k - 1)} IN
        /\ files0[run.langs[run.k]].st = "corrupt"
        /\ Len(run.counts) = run.k - 1
        /\ \A c \in DOMAIN files :
              IF c \in before
              THEN IsMergeOf(files[c], files0[c], run.table, c)
              ELSE files[c] = files0[c]

C9_Witness ==
    /\ InSync /\ pc = "failed" /\ run.kind = "JSONDecodeError"
    /\ run.k = 2
    /\ files[run.langs[1]] # files0[run.langs[1]]
    /\ files[run.langs[2]] = Corrupt
    /\ Len(run.table) = 2

=============================================================================
